---- MODULE Spec2Model ----
(***************************************************************************)
(* Model of the lang3 tokenizer: the byte cursor (src/src/iterator.rs),    *)
(* the lexer (src/src/lexer.rs), the escape table (src/src/util.rs) and    *)
(* the driver loop (src/src/main.rs).                                      *)
(*                                                                         *)
(* A character is a one-character string; control characters that TLA+     *)
(* cannot write are the strings "NUL", "BEL", "BS", "VT".  Option<char>    *)
(* None is the string "None".                                              *)
(***************************************************************************)
EXTENDS Integers, Sequences, FiniteSets, TLC

VARIABLES
    text,       \* StringIterator.text: the source, a sequence of characters
    iter,       \* StringIterator: [cur, cur_char, cur_line]
    state,      \* Lexer.state: "Ready" | "Lexing" | "Done"
    res,        \* the value returned by the last next_token call
    pre,        \* history: the cursor at the entry of the last call
    pre_state,  \* history: Lexer.state at the entry of the last next_token call
    cursor_op,  \* history: the last cursor operation, [op, n, ret]
    calls,      \* history: the number of next_token calls made on a lexer not yet Done
    kind_op,    \* history: the last TokenKind table operation, [op, arg, ret]
    tokens,     \* main: the Vec<Token> collected by the driver loop
    mainpc      \* main: position of the driver ("loop" | "done" | "panicked")

vars == <<text, iter, state, res, pre, pre_state, cursor_op, calls, kind_op, tokens, mainpc>>

(***************************************************************************)
(* Bounds of the explored inputs.                                          *)
(***************************************************************************)
MaxLen == 4         \* free texts: every string over Alphabet up to this length
MaxPieces == 5      \* comment texts: up to this many pieces of CommentPieces
MaxBody == 4        \* block texts: one block comment with a body up to this length
MaxOffset == 2      \* cursor runs: offset(n) is called with n up to this

None == "None"

\* the characters free texts are drawn from
Alphabet == {" ", "\n", "/", "*", "\"", "'", "\\", "n", "q", "+", "1"}

\* the pieces comment-shaped texts are built from
CommentPieces == {<<"/", "*">>, <<"*", "/">>, <<"/", "/">>, <<"\n">>, <<" ">>, <<"q">>, <<"+">>}

\* every character parse_operator knows, and the table's two it does not
OperatorChars ==
    {"!", "%", "&", "(", ")", "*", "+", ",", "-", ".", "/", ":", ";", "<",
     "=", ">", "?", "[", "]", "{", "|", "}", "^", "~"}

SeqsUpTo(S, n) == UNION {[1..k -> S] : k \in 0..n}

RECURSIVE Flatten(_)
Flatten(ps) == IF ps = <<>> THEN <<>> ELSE Head(ps) \o Flatten(Tail(ps))

FreeTexts == SeqsUpTo(Alphabet, MaxLen)

CommentTexts == {Flatten(ps) : ps \in SeqsUpTo(CommentPieces, MaxPieces)}

OperatorTexts == [1..1 -> OperatorChars] \cup [1..2 -> OperatorChars]

\* the characters the body of a block text is drawn from
BodyChars == {"*", "/", "q", " "}

\* one block comment: the opening, a body, the closing
BlockTexts == {<<"/", "*">> \o b \o <<"*", "/">> : b \in SeqsUpTo(BodyChars, MaxBody)}

\* the characters the texts of the cursor runs are drawn from
CursorChars == {"\n", "q", "/"}

CursorTexts == SeqsUpTo(CursorChars, MaxLen)

\* the inputs of the lexer's unit tests and the worked examples of the
\* specification, and a string literal that spans two lines after an operator
ExampleTexts ==
    {
     <<"\"", "H", "e", "l", "l", "o", ",", " ", "W", "o", "r", "l", "d", "!", "\"">>,
     <<"\"", "H", "e", "l", "l", "o", ",", " ", "\\", "\"", "W", "o", "r", "l", "d", "!", "\\", "\"", "\"">>,
     <<"\"", "H", "e", "l", "l", "o", ",", " ", "\\", "W", "o", "r", "l", "d", "!", "\\", "\"", "\"">>,
     <<"/", "/", " ", "H", "e", "l", "l", "o", ",", " ", "W", "o", "r", "l", "d", "!", "\n">>,
     <<"/", "*", " ", "H", "e", "l", "l", "o", ",", " ", "W", "o", "r", "l", "d", "!", " ", "*", "/">>,
     <<"+", "-", "*", "/">>,
     <<"'", "a", "'">>,
     <<"\"", "a", "b", "c", "\"">>,
     <<"\"", "a", "\\", "\"", "b", "\"">>,
     <<"\"", "a", "\\", "q", "b", "\"">>,
     <<"'", "x", "'">>,
     <<"'", "x", "y", "'">>,
     <<"1", "2", "3">>,
     <<"1", ".", "2", ".", "3">>,
     <<"1", "2", "_", "3">>,
     <<"f", "o", "o">>,
     <<"$", "b", "a", "r">>,
     <<"_", "b", "a", "z", "1">>,
     <<"c", "l", "a", "s", "s">>,
     <<"w", "h", "i", "l", "e">>,
     <<"l", "e", "t">>,
     <<"/", "*", " ", "a", " ", "/", "*", " ", "b", " ", "*", "/", " ", "c", " ", "*", "/">>,
     <<"/", "*", " ", "a", " ", "*", "/", "+">>,
     <<"!", "=">>,
     <<"!">>,
     <<"+", "+", "\"", "\n", "\"">>}

Texts == FreeTexts \cup CommentTexts \cup OperatorTexts \cup BlockTexts \cup ExampleTexts

(***************************************************************************)
(* StringIterator (src/src/iterator.rs)                                    *)
(***************************************************************************)
StringIterator_new == [cur |-> 0, cur_char |-> 1, cur_line |-> 1]

peek(it) == IF it.cur >= Len(text) THEN None ELSE text[it.cur + 1]

offset(it, n) == IF it.cur + n >= Len(text) THEN None ELSE text[it.cur + n + 1]

\* variant: a newline advances the line but does not reset the column
next_no_column_reset(it) ==
    IF it.cur >= Len(text) THEN it
    ELSE IF text[it.cur + 1] = "\n"
         THEN [cur |-> it.cur + 1, cur_char |-> it.cur_char + 1, cur_line |-> it.cur_line + 1]
         ELSE [cur |-> it.cur + 1, cur_char |-> it.cur_char + 1, cur_line |-> it.cur_line]

\* variant: the column is advanced before the end-of-input test
next_counts_at_end(it) ==
    IF it.cur >= Len(text) THEN [it EXCEPT !.cur_char = @ + 1]
    ELSE IF text[it.cur + 1] = "\n"
         THEN [cur |-> it.cur + 1, cur_char |-> 1, cur_line |-> it.cur_line + 1]
         ELSE [cur |-> it.cur + 1, cur_char |-> it.cur_char + 1, cur_line |-> it.cur_line]

\* variant: the position is advanced without the end-of-input test
next_past_end(it) ==
    IF it.cur >= Len(text) THEN [it EXCEPT !.cur = @ + 1]
    ELSE IF text[it.cur + 1] = "\n"
         THEN [cur |-> it.cur + 1, cur_char |-> 1, cur_line |-> it.cur_line + 1]
         ELSE [cur |-> it.cur + 1, cur_char |-> it.cur_char + 1, cur_line |-> it.cur_line]

\* the cursor after next(); the character next() returns is peek(it)
next(it) ==
    IF it.cur >= Len(text) THEN it
    ELSE IF text[it.cur + 1] = "\n"
         THEN [cur |-> it.cur + 1, cur_char |-> 1, cur_line |-> it.cur_line + 1]
         ELSE [cur |-> it.cur + 1, cur_char |-> it.cur_char + 1, cur_line |-> it.cur_line]

RECURSIVE skip(_, _)
skip(it, n) == IF n = 0 THEN it ELSE skip(next(it), n - 1)

(***************************************************************************)
(* util.rs                                                                 *)
(***************************************************************************)
\* variant: the escape character is pushed as it stands, undecoded
resolve_escape_sequence_raw(c) ==
    IF c \in {"0", "a", "b", "f", "n", "t", "r", "v", "\\", "'", "\""} THEN c ELSE None

\* variant: an unknown escape falls through as the character itself
resolve_escape_sequence_lenient(c) ==
    CASE c = "0" -> "NUL" [] c = "a" -> "BEL" [] c = "b" -> "BS"
      [] c = "f" -> "\f" [] c = "n" -> "\n" [] c = "t" -> "\t"
      [] c = "r" -> "\r" [] c = "v" -> "VT" [] OTHER -> c

resolve_escape_sequence(c) ==
    CASE c = "0" -> "NUL"
      [] c = "a" -> "BEL"
      [] c = "b" -> "BS"
      [] c = "f" -> "\f"
      [] c = "n" -> "\n"
      [] c = "t" -> "\t"
      [] c = "r" -> "\r"
      [] c = "v" -> "VT"
      [] c = "\\" -> "\\"
      [] c = "'" -> "'"
      [] c = "\"" -> "\""
      [] OTHER -> None

\* char::is_whitespace on the one-byte characters of the model
is_whitespace(c) == c \in {" ", "\n", "\t", "\r", "\f", "VT"}

\* TOKEN_KIND_MAP (src/src/token.rs): each entry is <<spelling, kind>>
TOKEN_KIND_MAP ==
    {
     <<<<"s", "u", "p", "e", "r">>, "Super">>,
     <<<<"c", "l", "a", "s", "s">>, "Class">>,
     <<<<"t", "h", "i", "s">>, "This">>,
     <<<<"w", "h", "i", "l", "e">>, "While">>,
     <<<<"i", "f">>, "If">>,
     <<<<"e", "l", "s", "e">>, "Else">>,
     <<<<"f", "o", "r">>, "For">>,
     <<<<"f", "o", "r", "e", "a", "c", "h">>, "Foreach">>,
     <<<<"i", "n">>, "In">>,
     <<<<"c", "o", "n", "t", "i", "n", "u", "e">>, "Continue">>,
     <<<<"b", "r", "e", "a", "k">>, "Break">>,
     <<<<"t", "r", "u", "e">>, "True">>,
     <<<<"f", "a", "l", "s", "e">>, "False">>,
     <<<<"n", "u", "l", "l">>, "Null">>,
     <<<<"i", "m", "p", "o", "r", "t">>, "Import">>,
     <<<<"i", "n", "c", "l", "u", "d", "e">>, "Include">>,
     <<<<"a", "s">>, "As">>,
     <<<<"f", "n">>, "Fn">>,
     <<<<"r", "e", "t", "u", "r", "n">>, "Return">>,
     <<<<"l", "e", "t">>, "Let">>,
     <<<<"c", "o", "n", "s", "t">>, "Const">>,
     <<<<"p", "r", "i", "n", "t">>, "Print">>,
     <<<<"=", ">">>, "FatArrow">>,
     <<<<"-", ">">>, "ThinArrow">>,
     <<<<"=">>, "Equal">>,
     <<<<"?", "?">>, "QuestionmarkQuestionmark">>,
     <<<<"?">>, "Questionmark">>,
     <<<<":">>, "Colon">>,
     <<<<"+">>, "Plus">>,
     <<<<"-">>, "Minus">>,
     <<<<"/">>, "Slash">>,
     <<<<"*">>, "Star">>,
     <<<<"*", "*">>, "StarStar">>,
     <<<<"%">>, "Percent">>,
     <<<<"&">>, "Ampersand">>,
     <<<<"&", "&">>, "AmpersandAmpersand">>,
     <<<<"^">>, "Caret">>,
     <<<<"|">>, "Pipe">>,
     <<<<"|", "|">>, "PipePipe">>,
     <<<<"!">>, "Bang">>,
     <<<<"=", "=">>, "EqualEqual">>,
     <<<<"!", "=">>, "BangEqual">>,
     <<<<">", "=">>, "GreaterEqual">>,
     <<<<"<", "=">>, "LessEqual">>,
     <<<<">">>, "Greater">>,
     <<<<"<">>, "Less">>,
     <<<<"<", "<">>, "LessLess">>,
     <<<<">", ">">>, "GreaterGreater">>,
     <<<<"~">>, "Tilde">>,
     <<<<"+", "+">>, "PlusPlus">>,
     <<<<"-", "-">>, "MinusMinus">>,
     <<<<"-", "=">>, "MinusEqual">>,
     <<<<"+", "=">>, "PlusEqual">>,
     <<<<"*", "=">>, "StarEqual">>,
     <<<<"/", "=">>, "SlashEqual">>,
     <<<<".">>, "Dot">>,
     <<<<".", ".">>, "DotDot">>,
     <<<<",">>, "Comma">>,
     <<<<";">>, "Semicolon">>,
     <<<<"(">>, "LeftParenthesis">>,
     <<<<")">>, "RightParenthesis">>,
     <<<<"{">>, "LeftBrace">>,
     <<<<"}">>, "RightBrace">>,
     <<<<"[">>, "LeftBracket">>,
     <<<<"]">>, "RightBracket">>}

\* variant: a string that is no key is looked up by its first character
from_str_by_first(s) ==
    IF \E e \in TOKEN_KIND_MAP : e[1] = s
    THEN (CHOOSE e \in TOKEN_KIND_MAP : e[1] = s)[2]
    ELSE IF s # <<>> /\ \E e \in TOKEN_KIND_MAP : e[1] = <<s[1]>>
    THEN (CHOOSE e \in TOKEN_KIND_MAP : e[1] = <<s[1]>>)[2]
    ELSE None

\* TokenKind::from_str: the kind of a spelling, None when it is no key
from_str(s) ==
    IF \E e \in TOKEN_KIND_MAP : e[1] = s
    THEN (CHOOSE e \in TOKEN_KIND_MAP : e[1] = s)[2]
    ELSE None

\* TokenKind::to_str: entries().find(|v| v.1 == self).unwrap().0 returns the
\* spelling of the first entry of that kind in the map's iteration order,
\* which the source does not fix: the set of the spellings it can return.
\* The empty set is the unwrap of None.
to_str(k) == {e[1] : e \in {x \in TOKEN_KIND_MAP : x[2] = k}}

(***************************************************************************)
(* Values returned by next_token                                           *)
(***************************************************************************)
NoneResult ==
    [tag |-> "None", kind |-> "", msg |-> "", lexeme |-> <<>>,
     line |-> 0, start_char |-> 0, end_char |-> 0]

PanicResult ==
    [tag |-> "Panic", kind |-> "", msg |-> "", lexeme |-> <<>>,
     line |-> 0, start_char |-> 0, end_char |-> 0]

Token(kind, lexeme, line, start_char, end_char) ==
    [tag |-> "Token", kind |-> kind, msg |-> "", lexeme |-> lexeme,
     line |-> line, start_char |-> start_char, end_char |-> end_char]

LexerError(msg, line, start_char, end_char) ==
    [tag |-> "Err", kind |-> "", msg |-> msg, lexeme |-> <<>>,
     line |-> line, start_char |-> start_char, end_char |-> end_char]

get_location(it) == [line |-> it.cur_line, start_char |-> it.cur_char, end_char |-> it.cur_char]

from_location(msg, loc) == LexerError(msg, loc.line, loc.start_char, loc.end_char)

invalid_escape_sequence(loc) == from_location("Invalid escape sequence", loc)

(***************************************************************************)
(* Lexer (src/src/lexer.rs).  Every scanning routine takes the cursor and  *)
(* returns the cursor it leaves behind together with its result.           *)
(***************************************************************************)
RECURSIVE skip_whitespace(_)
skip_whitespace(it) ==
    LET c == peek(it)
    IN  IF c = None \/ ~is_whitespace(c) THEN it ELSE skip_whitespace(next(it))

is_start_of_char(c) == c = "'"

\* variant: start_char is read after the opening quote has been consumed
parse_char_late_start(it) ==
    LET it1 == next(it)
        start_char == it1.cur_char
        start_line == it1.cur_line
        c   == peek(it1)
        it2 == next(it1)
        esc == peek(it2)
        it3 == IF c = "\\" THEN next(it2) ELSE it2
        string == IF c = "\\" THEN <<resolve_escape_sequence(esc)>> ELSE <<c>>
        nxt == peek(it3)
        it4 == next(it3)
    IN  IF c = None
        THEN [it |-> it1, res |-> PanicResult]
        ELSE IF c = "\\" /\ (esc = None \/ resolve_escape_sequence(esc) = None)
        THEN [it |-> it3, res |-> invalid_escape_sequence(get_location(it3))]
        ELSE IF nxt = None \/ ~is_start_of_char(nxt)
        THEN [it |-> it4,
              res |-> LexerError("Invalid char", start_line, start_char, it4.cur_char)]
        ELSE [it |-> it4,
              res |-> Token("Char", string, it4.cur_line, start_char, it4.cur_char)]

parse_char(it) ==
    LET start_char == it.cur_char
        start_line == it.cur_line
        it1 == next(it)                      \* skip the starting '
        c   == peek(it1)                     \* self._next().unwrap()
        it2 == next(it1)
        esc == peek(it2)
        it3 == IF c = "\\" THEN next(it2) ELSE it2
        string == IF c = "\\" THEN <<resolve_escape_sequence(esc)>> ELSE <<c>>
        nxt == peek(it3)
        it4 == next(it3)
    IN  IF c = None
        THEN [it |-> it1, res |-> PanicResult]
        ELSE IF c = "\\" /\ esc = None
        THEN [it |-> it3, res |-> invalid_escape_sequence(get_location(it3))]
        ELSE IF c = "\\" /\ resolve_escape_sequence(esc) = None
        THEN [it |-> it3, res |-> invalid_escape_sequence(get_location(it3))]
        ELSE IF nxt = None \/ ~is_start_of_char(nxt)
        THEN [it |-> it4,
              res |-> LexerError("Invalid char", start_line, start_char, it4.cur_char)]
        ELSE [it |-> it4,
              res |-> Token("Char", string, it4.cur_line, start_char, it4.cur_char)]

is_start_of_string(c) == c = "\""

\* the while-let loop of parse_string
RECURSIVE parse_string_loop(_, _, _, _)
parse_string_loop(it, string, start_line, start_char) ==
    LET c   == peek(it)
        it1 == next(it)
        esc == peek(it1)
        it2 == next(it1)
    IN  IF c = None
        THEN [it |-> it,
              res |-> LexerError("Unterminated string literal",
                                 start_line, start_char, it.cur_char)]
        ELSE IF is_start_of_string(c)
        THEN [it |-> it1,
              res |-> Token("String", string, start_line, start_char, it1.cur_char)]
        ELSE IF c = "\\"
        THEN IF esc = None \/ resolve_escape_sequence(esc) = None
             THEN [it |-> it2, res |-> invalid_escape_sequence(get_location(it2))]
             ELSE parse_string_loop(it2, Append(string, resolve_escape_sequence(esc)),
                                    start_line, start_char)
        ELSE parse_string_loop(it1, Append(string, c), start_line, start_char)

\* variant: start_char is read after the opening quote has been consumed
parse_string_late_start(it) ==
    parse_string_loop(next(it), <<>>, it.cur_line, next(it).cur_char)

parse_string(it) ==
    parse_string_loop(next(it), <<>>, it.cur_line, it.cur_char)

is_start_of_line_comment(it, c) == c = "/" /\ offset(it, 1) = "/"

\* variant: the loop stops in front of the newline instead of after it
RECURSIVE parse_line_comment_keep_newline(_)
parse_line_comment_keep_newline(it) ==
    LET c == peek(it)
    IN  IF c = None \/ c = "\n" THEN it
        ELSE parse_line_comment_keep_newline(next(it))

RECURSIVE parse_line_comment(_)
parse_line_comment(it) ==
    LET c == peek(it)
    IN  IF c = None THEN it
        ELSE IF c = "\n" THEN next(it)
        ELSE parse_line_comment(next(it))

is_start_of_block_comment(it, c) == c = "/" /\ offset(it, 1) = "*"

is_end_of_block_comment(it, c) == c = "*" /\ offset(it, 1) = "/"

\* the while-let loop of parse_block_comment; c has been consumed when the
\* two lookahead tests run, so offset(1) is the second character after c
RECURSIVE parse_block_comment_loop(_, _)
parse_block_comment_loop(it, depth) ==
    LET c   == peek(it)
        it1 == next(it)
        end == is_end_of_block_comment(it1, c)
        it2 == IF end THEN next(it1) ELSE it1
        d2  == IF end THEN depth - 1 ELSE depth
        start == is_start_of_block_comment(it2, c)
        it3 == IF start THEN skip(it2, 2) ELSE it2
        d3  == IF start THEN d2 + 1 ELSE d2
    IN  IF c = None
        THEN [it |-> it, ok |-> FALSE, depth |-> depth,
              err |-> from_location("Unterminated block comment", get_location(it))]
        ELSE IF d3 = 0
        THEN [it |-> it3, ok |-> TRUE, depth |-> d3, err |-> NoneResult]
        ELSE parse_block_comment_loop(it3, d3)

parse_block_comment(it) == parse_block_comment_loop(skip(it, 2), 1)

\* the kind parse_operator returns for first character c when the character
\* after it is p (None at end of input), with the number of characters used
operator_kind(c, p) ==
    CASE c = "!" -> IF p = "=" THEN <<"BangEqual", 2>> ELSE <<"Bang", 1>>
      [] c = "%" -> <<"Percent", 1>>
      [] c = "&" -> IF p = "&" THEN <<"AmpersandAmpersand", 2>> ELSE <<"Ampersand", 1>>
      [] c = "(" -> <<"LeftParenthesis", 1>>
      [] c = ")" -> <<"RightParenthesis", 1>>
      [] c = "*" -> IF p = "=" THEN <<"StarEqual", 2>>
                    ELSE IF p = "*" THEN <<"StarStar", 2>> ELSE <<"Star", 1>>
      [] c = "+" -> IF p = "+" THEN <<"PlusPlus", 2>>
                    ELSE IF p = "=" THEN <<"PlusEqual", 2>> ELSE <<"Plus", 1>>
      [] c = "," -> <<"Comma", 1>>
      [] c = "-" -> IF p = "-" THEN <<"MinusMinus", 2>>
                    ELSE IF p = "=" THEN <<"MinusEqual", 2>>
                    ELSE IF p = ">" THEN <<"FatArrow", 2>> ELSE <<"Minus", 1>>
      [] c = "." -> IF p = "." THEN <<"DotDot", 2>> ELSE <<"Dot", 1>>
      [] c = "/" -> IF p = "=" THEN <<"SlashEqual", 2>> ELSE <<"Slash", 1>>
      [] c = ":" -> <<"Colon", 1>>
      [] c = ";" -> <<"Semicolon", 1>>
      [] c = "<" -> IF p = "=" THEN <<"LessEqual", 2>> ELSE <<"Less", 1>>
      [] c = "=" -> IF p = "=" THEN <<"EqualEqual", 2>>
                    ELSE IF p = ">" THEN <<"FatArrow", 2>> ELSE <<"Equal", 1>>
      [] c = ">" -> IF p = "=" THEN <<"GreaterEqual", 2>> ELSE <<"Greater", 1>>
      [] c = "?" -> IF p = "?" THEN <<"QuestionmarkQuestionmark", 2>>
                    ELSE <<"Questionmark", 1>>
      [] c = "[" -> <<"LeftBracket", 1>>
      [] c = "]" -> <<"RightBracket", 1>>
      [] c = "{" -> <<"LeftBrace", 1>>
      [] c = "|" -> IF p = "|" THEN <<"PipePipe", 2>> ELSE <<"Pipe", 1>>
      [] c = "}" -> <<"RightBrace", 1>>
      [] OTHER -> <<None, 1>>

\* variant: the second character of a two-character operator is not consumed
parse_operator_single(it, c) ==
    [it |-> next(it), kind |-> operator_kind(c, peek(next(it)))[1]]

\* variant: an unknown first character gives the placeholder kind Invalid
parse_operator_placeholder(it, c) ==
    LET it1 == next(it)
        k   == operator_kind(c, peek(it1))
    IN  [it |-> skip(it1, k[2] - 1), kind |-> IF k[1] = None THEN "Invalid" ELSE k[1]]

\* variant: an unknown first character is reported without being consumed
parse_operator_no_consume(it, c) ==
    LET it1 == next(it)
        k   == operator_kind(c, peek(it1))
    IN  IF k[1] = None THEN [it |-> it, kind |-> None]
        ELSE [it |-> skip(it1, k[2] - 1), kind |-> k[1]]

\* variant: `->` gives the kind the spelling table has for it
parse_operator_thin_arrow(it, c) ==
    LET it1 == next(it)
        k   == operator_kind(c, peek(it1))
    IN  [it |-> skip(it1, k[2] - 1),
         kind |-> IF c = "-" /\ peek(it1) = ">" THEN "ThinArrow" ELSE k[1]]

\* parse_operator(c): self._next() skips whatever is under the cursor, then
\* the rule of c is applied to the character that follows
parse_operator(it, c) ==
    LET it1 == next(it)
        k   == operator_kind(c, peek(it1))
    IN  [it |-> skip(it1, k[2] - 1), kind |-> k[1]]

\* next_token: the lexer after the call and the value the call returns
next_token(it, st) ==
    LET c   == peek(it)
        it1 == skip_whitespace(it)
        bc  == parse_block_comment(it1)
        str == parse_string(it1)
        chr == parse_char(it1)
        op  == parse_operator(it1, c)
    IN  IF st = "Done"
        THEN [iter |-> it, state |-> st, res |-> NoneResult]
        ELSE IF c = None
        THEN [iter |-> it, state |-> "Done", res |-> NoneResult]
        ELSE IF is_start_of_block_comment(it1, c)
        \* parse_block_comment().err()?; return None;  -- None either way
        THEN [iter |-> bc.it, state |-> "Lexing", res |-> NoneResult]
        ELSE IF is_start_of_line_comment(it1, c)
        THEN [iter |-> parse_line_comment(it1), state |-> "Lexing", res |-> NoneResult]
        ELSE IF is_start_of_string(c)
        THEN [iter |-> str.it, state |-> "Lexing", res |-> str.res]
        ELSE IF is_start_of_char(c)
        THEN [iter |-> chr.it, state |-> "Lexing", res |-> chr.res]
        ELSE IF op.kind = None
        THEN [iter |-> op.it, state |-> "Lexing",
              res |-> from_location("Invalid operator", get_location(op.it))]
        ELSE [iter |-> op.it, state |-> "Lexing",
              res |-> Token(op.kind, <<>>, op.it.cur_line, op.it.cur_char, op.it.cur_char)]

(***************************************************************************)
(* The state machine                                                       *)
(***************************************************************************)
Init ==
    /\ text \in Texts
    /\ iter = StringIterator_new
    /\ state = "Ready"
    /\ res = NoneResult
    /\ pre = StringIterator_new
    /\ pre_state = "Ready"
    /\ cursor_op = [op |-> "new", n |-> 0, ret |-> None]
    /\ calls = 0
    /\ kind_op = [op |-> "new", arg |-> None, ret |-> None]
    /\ tokens = <<>>
    /\ mainpc = "loop"

\* variant: the state is set to Lexing before the Done test, so a call on a
\* finished lexer leaves Done
NextToken_relex ==
    /\ res.tag # "Panic"
    /\ LET r == next_token(iter, state)
       IN  /\ iter' = r.iter
           /\ state' = IF state = "Done" THEN "Lexing" ELSE r.state
           /\ res' = r.res
    /\ pre' = iter
    /\ pre_state' = state
    /\ calls' = IF state = "Done" THEN calls ELSE calls + 1
    /\ UNCHANGED <<text, cursor_op, kind_op>>

\* one call of Lexer::next_token; a panicked process makes no further call
NextToken ==
    /\ res.tag # "Panic"
    /\ LET r == next_token(iter, state)
       IN  /\ iter' = r.iter
           /\ state' = r.state
           /\ res' = r.res
    /\ pre' = iter
    /\ pre_state' = state
    /\ calls' = IF state = "Done" THEN calls ELSE calls + 1
    /\ UNCHANGED <<text, cursor_op, kind_op>>

\* any caller of the pull API
Next == NextToken /\ UNCHANGED <<tokens, mainpc>>

Spec == Init /\ [][Next]_vars

\* main: while let Some(res) = lexer.next_token() { if err { print; break } push }
MainLoop ==
    /\ mainpc = "loop"
    /\ NextToken
    /\ tokens' = IF res'.tag = "Token" THEN Append(tokens, res') ELSE tokens
    /\ mainpc' = CASE res'.tag = "Token" -> "loop"
                   [] res'.tag = "Panic" -> "panicked"
                   [] OTHER -> "done"

MainSpec == Init /\ [][MainLoop]_vars

(***************************************************************************)
(* The cursor on its own: any sequence of StringIterator operations        *)
(***************************************************************************)
CursorInit ==
    /\ text \in CursorTexts
    /\ iter = StringIterator_new
    /\ state = "Ready"
    /\ res = NoneResult
    /\ pre = StringIterator_new
    /\ pre_state = "Ready"
    /\ cursor_op = [op |-> "new", n |-> 0, ret |-> None]
    /\ calls = 0
    /\ kind_op = [op |-> "new", arg |-> None, ret |-> None]
    /\ tokens = <<>>
    /\ mainpc = "loop"

\* peek(&self)
CursorPeek ==
    /\ cursor_op' = [op |-> "peek", n |-> 0, ret |-> peek(iter)]
    /\ pre' = iter
    /\ UNCHANGED <<text, iter, state, res, pre_state, calls, kind_op, tokens, mainpc>>

\* offset(&self, n)
CursorOffset ==
    \E n \in 0..MaxOffset :
        /\ cursor_op' = [op |-> "offset", n |-> n, ret |-> offset(iter, n)]
        /\ pre' = iter
        /\ UNCHANGED <<text, iter, state, res, pre_state, calls, kind_op, tokens, mainpc>>

\* next(&mut self)
CursorNext ==
    /\ cursor_op' = [op |-> "next", n |-> 0, ret |-> peek(iter)]
    /\ iter' = next(iter)
    /\ pre' = iter
    /\ UNCHANGED <<text, state, res, pre_state, calls, kind_op, tokens, mainpc>>

CursorStep == CursorPeek \/ CursorOffset \/ CursorNext

CursorSpec == CursorInit /\ [][CursorStep]_vars

(***************************************************************************)
(* The spelling table on its own: from_str on a string, then to_str on the *)
(* kind it gave                                                            *)
(***************************************************************************)
\* the characters appended to a spelling to make a near miss
SuffixChars == {"s", "=", " "}

\* the spellings of the table, their prefixes, the spellings with one more
\* character, and every text of one or two operator characters
TableTexts ==
    LET keys == {e[1] : e \in TOKEN_KIND_MAP}
    IN  keys
        \cup UNION {{SubSeq(k, 1, n) : n \in 0..Len(k)} : k \in keys}
        \cup {k \o <<c>> : k \in keys, c \in SuffixChars}
        \cup OperatorTexts

TableInit ==
    /\ text \in TableTexts
    /\ iter = StringIterator_new
    /\ state = "Ready"
    /\ res = NoneResult
    /\ pre = StringIterator_new
    /\ pre_state = "Ready"
    /\ cursor_op = [op |-> "new", n |-> 0, ret |-> None]
    /\ calls = 0
    /\ kind_op = [op |-> "new", arg |-> None, ret |-> None]
    /\ tokens = <<>>
    /\ mainpc = "loop"

\* TokenKind::from_str(text)
FromStr ==
    /\ kind_op' = [op |-> "from_str", arg |-> text, ret |-> from_str(text)]
    /\ UNCHANGED <<text, iter, state, res, pre, pre_state, cursor_op, calls, tokens, mainpc>>

\* to_str() on the kind the last from_str returned, a kind of the table
ToStr ==
    /\ kind_op.op = "from_str"
    /\ kind_op.ret # None
    /\ \E s \in to_str(kind_op.ret) :
           kind_op' = [op |-> "to_str", arg |-> kind_op.ret, ret |-> s]
    /\ UNCHANGED <<text, iter, state, res, pre, pre_state, cursor_op, calls, tokens, mainpc>>

TableStep == FromStr \/ ToStr

TableSpec == TableInit /\ [][TableStep]_vars

(***************************************************************************)
(* Reference readings of the input, used to state the properties.  They    *)
(* read the text by index and do not use the cursor.                       *)
(***************************************************************************)
\* at least one next_token call has returned
Called == state # "Ready"

Digits == {"0", "1", "2", "3", "4", "5", "6", "7", "8", "9"}

Letters ==
    {"a", "b", "c", "d", "e", "f", "g", "h", "i", "j", "k", "l", "m", "n", "o", "p",
     "q", "r", "s", "t", "u", "v", "w", "x", "y", "z",
     "A", "B", "C", "D", "E", "F", "G", "H", "I", "J", "K", "L", "M", "N", "O", "P",
     "Q", "R", "S", "T", "U", "V", "W", "X", "Y", "Z"}

IdentStart == Letters \cup {"_", "$"}

IdentChars == IdentStart \cup Digits

\* the text has character a at index i and character b right after it
PairAt(i, a, b) == i >= 1 /\ i < Len(text) /\ text[i] = a /\ text[i + 1] = b

\* offset just after the next newline at or after offset k, or the end of the text
RefLineEnd(k) ==
    IF \E i \in (k + 1)..Len(text) : text[i] = "\n"
    THEN CHOOSE i \in (k + 1)..Len(text) :
             /\ text[i] = "\n"
             /\ \A j \in (k + 1)..(i - 1) : text[j] # "\n"
    ELSE Len(text)

\* reading a block comment from index i at nesting depth `depth`: the offset
\* just after the closing */ that brings the depth to 0, or 0 when the input
\* ends first
RECURSIVE RefBlockClose(_, _)
RefBlockClose(i, depth) ==
    IF i > Len(text) THEN 0
    ELSE IF PairAt(i, "*", "/")
    THEN IF depth = 1 THEN i + 1 ELSE RefBlockClose(i + 2, depth - 1)
    ELSE IF PairAt(i, "/", "*") THEN RefBlockClose(i + 2, depth + 1)
    ELSE RefBlockClose(i + 1, depth)

\* from offset k on, the text holds only whitespace, line comments and
\* well-nested block comments
RECURSIVE OnlyBlanks(_)
OnlyBlanks(k) ==
    IF k >= Len(text) THEN TRUE
    ELSE IF is_whitespace(text[k + 1]) THEN OnlyBlanks(k + 1)
    ELSE IF PairAt(k + 1, "/", "/") THEN OnlyBlanks(RefLineEnd(k + 2))
    ELSE IF PairAt(k + 1, "/", "*")
    THEN RefBlockClose(k + 3, 1) # 0 /\ OnlyBlanks(RefBlockClose(k + 3, 1))
    ELSE FALSE

\* the escape table of the specification
EscapeTable ==
    [c \in {"0", "a", "b", "f", "n", "t", "r", "v", "\\", "'", "\""} |->
        CASE c = "0" -> "NUL" [] c = "a" -> "BEL" [] c = "b" -> "BS"
          [] c = "f" -> "\f" [] c = "n" -> "\n" [] c = "t" -> "\t"
          [] c = "r" -> "\r" [] c = "v" -> "VT" [] OTHER -> c]

\* reading the body of a string literal from index i: how it ends, the offset
\* just after its last character read, and the decoded content
RECURSIVE RefString(_, _)
RefString(i, acc) ==
    IF i > Len(text) THEN [kind |-> "unterminated", close |-> Len(text), lexeme |-> acc]
    ELSE IF text[i] = "\"" THEN [kind |-> "terminated", close |-> i, lexeme |-> acc]
    ELSE IF text[i] = "\\"
    THEN IF i + 1 > Len(text) \/ text[i + 1] \notin DOMAIN EscapeTable
         THEN [kind |-> "bad_escape", close |-> i, lexeme |-> acc]
         ELSE RefString(i + 2, Append(acc, EscapeTable[text[i + 1]]))
    ELSE RefString(i + 1, Append(acc, text[i]))

\* the character at index i, None outside the text
CharAt(i) == IF i >= 1 /\ i <= Len(text) THEN text[i] ELSE None

\* the 1-based line of offset k: one more than the newlines before it
RefLine(k) == 1 + Cardinality({i \in 1..k : text[i] = "\n"})

\* the 1-based column of offset k: one more than the characters between the
\* last newline before it and k
RefColumn(k) ==
    LET nls == {i \in 1..k : text[i] = "\n"}
        last == IF nls = {} THEN 0 ELSE CHOOSE i \in nls : \A j \in nls : j <= i
    IN  k - last + 1

\* the index of the last character of the maximal run of characters of S
\* that starts at index i (i - 1 when there is none)
RECURSIVE RunEnd(_, _)
RunEnd(i, S) == IF i <= Len(text) /\ text[i] \in S THEN RunEnd(i + 1, S) ELSE i - 1

NotSeparator(c) == c # "_"

\* the tokens a consumer receives that pulls until the lexer is Done and
\* stops at the first error
RECURSIVE PullAll(_, _)
PullAll(it, st) ==
    LET r == next_token(it, st)
    IN  IF r.state = "Done" THEN <<>>
        ELSE IF r.res.tag = "Token" THEN <<r.res>> \o PullAll(r.iter, r.state)
        ELSE IF r.res.tag = "None" THEN PullAll(r.iter, r.state)
        ELSE <<>>

(***************************************************************************)
(* Properties                                                              *)
(***************************************************************************)

\* C1: on an input made up only of whitespace, line comments and well-nested
\* block comments, no next_token call returns a token or an error.
C1_BlankInputYieldsNothing ==
    OnlyBlanks(0) => res.tag = "None"

\* C2: when the unconsumed input starts with whitespace, the call dispatches
\* on the first non-whitespace character: an operator gives its operator
\* token, a terminated string literal a String token, a raw char literal a
\* Char token, and a comment start gives no token and no error.
C2_DispatchAfterWhitespace ==
    LET it1 == skip_whitespace(pre)
        d   == peek(it1)
        i   == it1.cur + 1
    IN  (Called /\ peek(pre) # None /\ is_whitespace(peek(pre)) /\ d # None) =>
            /\ (PairAt(i, "/", "/") \/ PairAt(i, "/", "*")) => res.tag = "None"
            /\ (/\ operator_kind(d, None)[1] # None
                /\ ~PairAt(i, "/", "/")
                /\ ~PairAt(i, "/", "*")) =>
                   res.tag = "Token" /\ res.kind = operator_kind(d, offset(it1, 1))[1]
            /\ (d = "\"" /\ RefString(i + 1, <<>>).kind = "terminated") =>
                   res.tag = "Token" /\ res.kind = "String"
            /\ (/\ d = "'"
                /\ i + 2 <= Len(text)
                /\ text[i + 1] # "\\"
                /\ text[i + 2] = "'") =>
                   res.tag = "Token" /\ res.kind = "Char"

\* C3: a driver that pulls until the end-of-input result receives every token
\* of the input, also the tokens that follow a comment (checked on main's loop).
C3_DriverReceivesEveryToken ==
    mainpc = "done" => tokens = PullAll(StringIterator_new, "Ready")

\* C4: a call that starts at the opening of a block comment which is closed
\* leaves the cursor immediately after the closing */ that brings the depth to 0.
C4_BlockCommentStopsAfterClose ==
    (/\ Called
     /\ PairAt(pre.cur + 1, "/", "*")
     /\ RefBlockClose(pre.cur + 3, 1) # 0) =>
        iter.cur = RefBlockClose(pre.cur + 3, 1)

\* C5: a call that starts at the opening of a block comment which the input
\* never closes returns an UnterminatedBlockComment error.
C5_UnterminatedBlockCommentReported ==
    (/\ Called
     /\ PairAt(pre.cur + 1, "/", "*")
     /\ RefBlockClose(pre.cur + 3, 1) = 0) =>
        res.tag = "Err" /\ res.msg = "Unterminated block comment"

\* C6: the first call on an input that starts with a digit scans the run of
\* digits, `_` and `.`: no `.` gives an Integer token and one `.` a Float
\* token, both with the run minus its `_` as lexeme; more gives InvalidFloat.
C6_DigitStartsNumber ==
    (Called /\ pre.cur = 0 /\ Len(text) > 0 /\ text[1] \in Digits) =>
        LET e    == RunEnd(1, Digits \cup {"_", "."})
            dots == Cardinality({j \in 1..e : text[j] = "."})
            lex  == SelectSeq(SubSeq(text, 1, e), NotSeparator)
        IN  IF dots >= 2
            THEN res.tag = "Err" /\ res.msg = "Invalid float"
            ELSE /\ res.tag = "Token"
                 /\ res.kind = (IF dots = 1 THEN "Float" ELSE "Integer")
                 /\ res.lexeme = lex

\* C7: the first call on an input that starts with a letter, `_` or `$`
\* returns a token whose lexeme is the maximal run of identifier characters;
\* its kind is the keyword kind of the table for a reserved word and
\* Identifier otherwise.
C7_IdentifierOrKeyword ==
    (Called /\ pre.cur = 0 /\ Len(text) > 0 /\ text[1] \in IdentStart) =>
        LET lex == SubSeq(text, 1, RunEnd(1, IdentChars))
        IN  /\ res.tag = "Token"
            /\ res.lexeme = lex
            /\ res.kind = (IF from_str(lex) # None THEN from_str(lex) ELSE "Identifier")

\* C8: a call that starts at the opening quote of a terminated string literal
\* returns one String token: its lexeme is the content between the quotes
\* with every escape decoded, its start_char the column of the opening quote,
\* its end_char the column just after the closing quote; the cursor is left
\* just after the closing quote.
C8_StringToken ==
    LET ref == RefString(pre.cur + 2, <<>>)
    IN  (Called /\ CharAt(pre.cur + 1) = "\"" /\ ref.kind = "terminated") =>
            /\ res.tag = "Token"
            /\ res.kind = "String"
            /\ res.lexeme = ref.lexeme
            /\ res.start_char = RefColumn(pre.cur)
            /\ res.end_char = RefColumn(ref.close)
            /\ iter.cur = ref.close

\* a string literal with the escape \n has been scanned into a token
C8_Witness ==
    /\ Called
    /\ CharAt(pre.cur + 1) = "\""
    /\ CharAt(pre.cur + 2) = "\\"
    /\ CharAt(pre.cur + 3) = "n"
    /\ RefString(pre.cur + 2, <<>>).kind = "terminated"
    /\ res.tag = "Token"
    /\ res.lexeme = <<"\n">>

\* C9: in a string literal, and at the character position of a char literal,
\* a backslash followed by the end of the input or by a character outside the
\* escape table makes the call return an InvalidEscapeSequence error, no token.
C9_InvalidEscape ==
    Called =>
        /\ (/\ CharAt(pre.cur + 1) = "\""
            /\ RefString(pre.cur + 2, <<>>).kind = "bad_escape") =>
               res.tag = "Err" /\ res.msg = "Invalid escape sequence"
        /\ (/\ CharAt(pre.cur + 1) = "'"
            /\ CharAt(pre.cur + 2) = "\\"
            /\ CharAt(pre.cur + 3) \notin DOMAIN EscapeTable) =>
               res.tag = "Err" /\ res.msg = "Invalid escape sequence"

\* a string literal was scanned whose body holds, after some content, a
\* backslash followed by a character outside the table
C9_Witness ==
    /\ Called
    /\ CharAt(pre.cur + 1) = "\""
    /\ RefString(pre.cur + 2, <<>>).kind = "bad_escape"
    /\ RefString(pre.cur + 2, <<>>).close > pre.cur + 2
    /\ RefString(pre.cur + 2, <<>>).close < Len(text)
    /\ res.tag = "Err"

\* C10: a call that starts at an opening quote after which the input ends
\* without a closing quote (and not in an escape) returns an
\* UnterminatedString error whose line and start_char are the line and the
\* column of the opening quote, and no token.
C10_UnterminatedString ==
    (/\ Called
     /\ CharAt(pre.cur + 1) = "\""
     /\ RefString(pre.cur + 2, <<>>).kind = "unterminated") =>
        /\ res.tag = "Err"
        /\ res.msg = "Unterminated string literal"
        /\ res.line = RefLine(pre.cur)
        /\ res.start_char = RefColumn(pre.cur)

\* an unterminated string literal that opens on the second line was scanned
C10_Witness ==
    /\ Called
    /\ CharAt(pre.cur + 1) = "\""
    /\ RefString(pre.cur + 2, <<>>).kind = "unterminated"
    /\ RefLine(pre.cur) = 2
    /\ res.tag = "Err"

\* reading a char literal whose opening quote is at index q: whether it has
\* a logical character (a raw character, or an escape of the table), that
\* character decoded, and the index where the closing quote must stand
RefChar(q) ==
    IF CharAt(q + 1) = "\\"
    THEN [ok |-> CharAt(q + 2) \in DOMAIN EscapeTable,
          ch |-> IF CharAt(q + 2) \in DOMAIN EscapeTable
                 THEN EscapeTable[CharAt(q + 2)] ELSE None,
          close |-> q + 3]
    ELSE [ok |-> CharAt(q + 1) # None, ch |-> CharAt(q + 1), close |-> q + 2]

\* C11: a call that starts at the opening quote of a char literal with one
\* logical character returns a Char token whose lexeme is that character
\* decoded when a `'` follows it, and otherwise (another character or the
\* end of the input) an InvalidChar error whose start_char is the column of
\* the opening quote; the opening quote, the logical character and the
\* character after it (if any) are consumed.
C11_CharLiteral ==
    LET ref == RefChar(pre.cur + 1)
    IN  (Called /\ CharAt(pre.cur + 1) = "'" /\ ref.ok) =>
            IF CharAt(ref.close) = "'"
            THEN /\ res.tag = "Token"
                 /\ res.kind = "Char"
                 /\ res.lexeme = <<ref.ch>>
                 /\ res.start_char = RefColumn(pre.cur)
                 /\ iter.cur = ref.close
            ELSE /\ res.tag = "Err"
                 /\ res.msg = "Invalid char"
                 /\ res.start_char = RefColumn(pre.cur)
                 /\ iter.cur = (IF ref.close <= Len(text) THEN ref.close ELSE Len(text))

\* a char literal that does not start the text was closed by another
\* character than `'` and reported
C11_Witness ==
    /\ Called
    /\ pre.cur > 0
    /\ CharAt(pre.cur + 1) = "'"
    /\ RefChar(pre.cur + 1).ok
    /\ CharAt(RefChar(pre.cur + 1).close) \notin {"'", None}
    /\ res.tag = "Err"
    /\ res.msg = "Invalid char"

\* the operator and punctuation spellings the lexer scans, with their kinds
LexerOperators ==
    {<<<<"!">>, "Bang">>, <<<<"!", "=">>, "BangEqual">>,
     <<<<"%">>, "Percent">>,
     <<<<"&">>, "Ampersand">>, <<<<"&", "&">>, "AmpersandAmpersand">>,
     <<<<"(">>, "LeftParenthesis">>, <<<<")">>, "RightParenthesis">>,
     <<<<"*">>, "Star">>, <<<<"*", "=">>, "StarEqual">>, <<<<"*", "*">>, "StarStar">>,
     <<<<"+">>, "Plus">>, <<<<"+", "+">>, "PlusPlus">>, <<<<"+", "=">>, "PlusEqual">>,
     <<<<",">>, "Comma">>,
     <<<<"-">>, "Minus">>, <<<<"-", "-">>, "MinusMinus">>, <<<<"-", "=">>, "MinusEqual">>,
     <<<<"-", ">">>, "FatArrow">>,
     <<<<".">>, "Dot">>, <<<<".", ".">>, "DotDot">>,
     <<<<"/">>, "Slash">>, <<<<"/", "=">>, "SlashEqual">>,
     <<<<":">>, "Colon">>, <<<<";">>, "Semicolon">>,
     <<<<"<">>, "Less">>, <<<<"<", "=">>, "LessEqual">>,
     <<<<"=">>, "Equal">>, <<<<"=", "=">>, "EqualEqual">>, <<<<"=", ">">>, "FatArrow">>,
     <<<<">">>, "Greater">>, <<<<">", "=">>, "GreaterEqual">>,
     <<<<"?">>, "Questionmark">>, <<<<"?", "?">>, "QuestionmarkQuestionmark">>,
     <<<<"[">>, "LeftBracket">>, <<<<"]">>, "RightBracket">>,
     <<<<"{">>, "LeftBrace">>, <<<<"}">>, "RightBrace">>,
     <<<<"|">>, "Pipe">>, <<<<"|", "|">>, "PipePipe">>}

IsLexerOperator(s) == \E e \in LexerOperators : e[1] = s

LexerOperatorKind(s) == (CHOOSE e \in LexerOperators : e[1] = s)[2]

\* C12: a call that starts at an operator character c (and not at a comment
\* opening) returns a token with an empty lexeme: when c and the character
\* after it spell a two-character operator, that operator's kind with
\* exactly two characters consumed, and otherwise the kind of c alone with
\* exactly one character consumed.
C12_LongestMatch ==
    LET c == CharAt(pre.cur + 1)
        d == CharAt(pre.cur + 2)
    IN  (/\ Called
         /\ IsLexerOperator(<<c>>)
         /\ ~(c = "/" /\ d \in {"/", "*"})) =>
            /\ res.tag = "Token"
            /\ res.lexeme = <<>>
            /\ IF IsLexerOperator(<<c, d>>)
               THEN res.kind = LexerOperatorKind(<<c, d>>) /\ iter.cur = pre.cur + 2
               ELSE res.kind = LexerOperatorKind(<<c>>) /\ iter.cur = pre.cur + 1

\* a two-character operator inside the text was scanned as one token
C12_Witness ==
    /\ Called
    /\ pre.cur > 0
    /\ IsLexerOperator(<<CharAt(pre.cur + 1), CharAt(pre.cur + 2)>>)
    /\ res.tag = "Token"
    /\ iter.cur = pre.cur + 2
    /\ iter.cur < Len(text)

\* the run +-*/ has been pulled to its last operator
C12_WitnessRun ==
    /\ text = <<"+", "-", "*", "/">>
    /\ pre.cur = 3
    /\ res.tag = "Token"
    /\ res.kind = "Slash"

\* C13: a call whose dispatch character starts no comment, string, char,
\* number or identifier and is no operator character returns an
\* InvalidOperator error and no token.
C13_InvalidOperator ==
    LET c == CharAt(pre.cur + 1)
    IN  (/\ Called
         /\ c # None
         /\ ~is_whitespace(c)
         /\ c \notin {"\"", "'"} \cup Digits \cup IdentStart
         /\ ~IsLexerOperator(<<c>>)) =>
            res.tag = "Err" /\ res.msg = "Invalid operator"

\* a character that starts nothing (`^`, `~`, `\`) was the dispatch character
C13_Witness ==
    /\ Called
    /\ CharAt(pre.cur + 1) \in {"^", "~", "\\"}
    /\ pre.cur > 0
    /\ res.tag = "Err"

\* C14: every token's start_char is the column of the cursor before the
\* token's first character was consumed and its end_char the column of the
\* cursor after its last character was consumed.
C14_TokenSpan ==
    (Called /\ res.tag = "Token") =>
        /\ res.start_char = RefColumn(pre.cur)
        /\ res.end_char = RefColumn(iter.cur)

\* the position of a state in the order Ready, Lexing, Done
StateRank(st) == CASE st = "Ready" -> 0 [] st = "Lexing" -> 1 [] st = "Done" -> 2

\* C15: no call moves the state backwards in the order Ready, Lexing, Done;
\* a call leaves the lexer Done exactly when it was Done or found the cursor
\* exhausted; a call on a Done lexer returns the none-result and changes
\* neither the state nor the cursor.
C15_StateForward ==
    /\ StateRank(pre_state) <= StateRank(state)
    /\ Called => ((state = "Done") <=> (pre_state = "Done" \/ pre.cur >= Len(text)))
    /\ pre_state = "Done" => (state = "Done" /\ res = NoneResult /\ iter = pre)

\* a call was made on a lexer that was already Done, after a nonempty text
C15_Witness ==
    /\ pre_state = "Done"
    /\ state = "Done"
    /\ Len(text) > 1

\* the text has a newline at or after offset k
HasNewlineFrom(k) == \E i \in (k + 1)..Len(text) : text[i] = "\n"

\* C17: a call that starts at `//` returns no token and no error and leaves
\* the cursor just after the next newline, at column 1 of the following
\* line, or at the end of the input when no newline follows.
C17_LineComment ==
    (Called /\ PairAt(pre.cur + 1, "/", "/")) =>
        /\ res = NoneResult
        /\ iter.cur = RefLineEnd(pre.cur)
        /\ HasNewlineFrom(pre.cur) =>
               /\ text[iter.cur] = "\n"
               /\ iter.cur_char = 1
               /\ iter.cur_line = RefLine(pre.cur) + 1

\* a line comment with content was consumed through its newline and text
\* remains after it
C17_Witness ==
    /\ Called
    /\ PairAt(pre.cur + 1, "/", "/")
    /\ HasNewlineFrom(pre.cur)
    /\ iter.cur > pre.cur + 3
    /\ iter.cur < Len(text)
    /\ res = NoneResult

\* C18: on an input that is exactly one well-nested block comment, no
\* next_token call returns a token or an error.
C18_OneBlockCommentYieldsNothing ==
    (PairAt(1, "/", "*") /\ RefBlockClose(3, 1) = Len(text)) => res.tag = "None"

\* C19: in every cursor state line() is 1 plus the newlines consumed and
\* char() is 1 plus the characters consumed since the last consumed newline;
\* a next() that returns a character advances the position by exactly one
\* and sets line + 1 and column 1 on a newline, column + 1 otherwise.
C19_LineAndColumn ==
    /\ iter.cur_line = RefLine(iter.cur)
    /\ iter.cur_char = RefColumn(iter.cur)
    /\ (cursor_op.op = "next" /\ cursor_op.ret # None) =>
           /\ iter.cur = pre.cur + 1
           /\ cursor_op.ret = text[iter.cur]
           /\ IF cursor_op.ret = "\n"
              THEN iter.cur_line = pre.cur_line + 1 /\ iter.cur_char = 1
              ELSE iter.cur_line = pre.cur_line /\ iter.cur_char = pre.cur_char + 1

\* next() has consumed a character that follows a newline that follows a
\* character
C19_Witness ==
    /\ cursor_op.op = "next"
    /\ cursor_op.ret \notin {None, "\n"}
    /\ iter.cur_line = 2
    /\ iter.cur_char = 2
    /\ iter.cur >= 3

\* C20: peek(), offset(n) and next() at the end of the input leave position,
\* line and column unchanged, and next() on a cursor that is not exhausted
\* changes them; offset(0) equals peek() in every state; offset(n) is None
\* exactly when position + n is at or past the end of the text, and
\* otherwise the character at that position.
C20_OnlyNextMutates ==
    /\ cursor_op.op \in {"peek", "offset"} => iter = pre
    /\ (cursor_op.op = "next" /\ pre.cur >= Len(text)) =>
           (iter = pre /\ cursor_op.ret = None)
    /\ (cursor_op.op = "next" /\ pre.cur < Len(text)) => iter # pre
    /\ offset(iter, 0) = peek(iter)
    /\ cursor_op.op = "peek" => cursor_op.ret = CharAt(pre.cur + 1)
    /\ cursor_op.op = "offset" =>
           /\ (cursor_op.ret = None) <=> (pre.cur + cursor_op.n >= Len(text))
           /\ cursor_op.ret = CharAt(pre.cur + cursor_op.n + 1)

\* next() was called on an exhausted cursor of a text with two lines
C20_Witness ==
    /\ cursor_op.op = "next"
    /\ cursor_op.ret = None
    /\ pre.cur = Len(text)
    /\ pre.cur_line > 1
    /\ pre.cur_char > 1

\* C21: across any sequence of next_token calls, calls that return errors
\* included, the cursor's position never decreases and always lies between
\* 0 and the length of the text.
C21_PositionMonotone ==
    /\ pre.cur <= iter.cur
    /\ 0 <= iter.cur
    /\ iter.cur <= Len(text)

\* a call that returned an error moved the cursor to the end of the text,
\* after an earlier call had already moved it
C21_Witness ==
    /\ res.tag = "Err"
    /\ pre.cur > 0
    /\ iter.cur > pre.cur + 1
    /\ iter.cur = Len(text)

DocumentedErrors ==
    {"Invalid operator", "Invalid char", "Invalid escape sequence",
     "Unterminated string literal", "Unterminated block comment"}

\* C23: every next_token call returns normally, with a token, one of the
\* documented errors or the none-result; no call aborts, also when the
\* input ends inside a literal.
C23_NeverAborts ==
    /\ res.tag \in {"Token", "Err", "None"}
    /\ res.tag = "Err" => res.msg \in DocumentedErrors

IsTableOperator(s) == from_str(s) # None /\ s[1] \notin Letters

\* C25: on an input that is an operator or punctuation spelling of
\* TOKEN_KIND_MAP, the first call of a fresh lexer returns one token of the
\* kind the table has for the spelling and consumes the whole input, and
\* the second call leaves the lexer Done.
C25_LexerAgreesWithTable ==
    (Called /\ IsTableOperator(text)) =>
        /\ calls = 1 =>
               /\ res.tag = "Token"
               /\ res.kind = from_str(text)
               /\ iter.cur = Len(text)
        /\ calls >= 2 => state = "Done"

\* C26: the line of every token is the line on which the token's first
\* character lies, the line of the cursor before the token was scanned,
\* for string, char and operator tokens, literals with a raw newline included.
C26_TokenLine ==
    (Called /\ res.tag = "Token") => res.line = RefLine(pre.cur)

\* C27: no two entries of TOKEN_KIND_MAP have the same kind; from_str
\* succeeds exactly on the spellings that are keys of the table; and to_str
\* of the kind from_str gave for a spelling is that spelling.
C27_TableRoundTrip ==
    /\ \A e1, e2 \in TOKEN_KIND_MAP : e1[2] = e2[2] => e1[1] = e2[1]
    /\ kind_op.op = "from_str" =>
           /\ kind_op.ret # None <=> \E e \in TOKEN_KIND_MAP : e[1] = text
           /\ kind_op.ret # None => <<text, kind_op.ret>> \in TOKEN_KIND_MAP
    /\ kind_op.op = "to_str" => kind_op.ret = text

\* the spelling `->` came back from to_str of the kind from_str gave it
C27_Witness ==
    /\ kind_op.op = "to_str"
    /\ kind_op.arg = "ThinArrow"
    /\ kind_op.ret = <<"-", ">">>
    /\ text = <<"-", ">">>

\* C28: every token and every error returned by next_token has
\* 1 <= start_char <= end_char, also for literals that span several lines.
C28_SpanNotInverted ==
    (Called /\ res.tag \in {"Token", "Err"}) =>
        /\ 1 <= res.start_char
        /\ res.start_char <= res.end_char

====
